---- MODULE Spec2Model ----
(***************************************************************************)
(* A model of cargo-gluegun's plugin orchestration engine                  *)
(* (crates/cargo-gluegun/src/lib.rs): Builder::execute, apply_plugin,      *)
(* execute_plugin, the command builders, dest_crate_name_and_path and the  *)
(* configuration merger merge_metadata / merge_values.                     *)
(*                                                                         *)
(* Strings are sequences of one-character strings, so that format!,        *)
(* str::replace, str::contains and split_whitespace are computed and not   *)
(* assumed.                                                                *)
(***************************************************************************)
EXTENDS Integers, Sequences, FiniteSets, TLC

VARIABLES
    universe,           \* which workspaces the cargo metadata query may report
    builder,            \* the Builder: current_directory, args, plugin_command
    pc,                 \* where execute, apply_plugin or execute_plugin stands
    cli_plugins,        \* cli.plugins, once the arguments are parsed
    workspace_metadata, \* metadata.workspace_metadata, once cargo has answered
    selected,           \* the selected packages, in workspace order
    package_i,          \* the outer loop of execute: index into selected
    plugin_j,           \* the inner loop of execute: index into cli_plugins
    idl,                \* apply_plugin's idl (an Option)
    gluegun_metadata,   \* apply_plugin's gluegun_metadata (an Option)
    plugin_metadata,    \* apply_plugin's plugin_metadata (an Option)
    dest,               \* apply_plugin's (crate_name, crate_path) (an Option)
    built,              \* what the command-builder returned (an Option)
    command,            \* execute_plugin's plugin_command, configured (an Option)
    child,              \* the plugin process and the parent's handle on its stdin
    exit_status,        \* what child.wait() returned (an Option)
    ret,                \* what the last call of apply_plugin returned
    result,             \* what execute returned
    events,             \* the operations performed so far, in order
    extractions,        \* how often the extractor has been invoked
    m_workspace,        \* merge_metadata's first argument  (Option<&Value>)
    m_package,          \* merge_metadata's second argument (Option<&Value>)
    m_merged,           \* merge_metadata(m_workspace, m_package), once called
    m_swapped           \* merge_metadata(m_package, m_workspace), once called

input_vars == <<universe, builder, cli_plugins, workspace_metadata, selected>>
loop_vars == <<package_i, plugin_j>>
local_vars == <<idl, gluegun_metadata, plugin_metadata, dest, built, command, exit_status>>
run_vars == <<input_vars, pc, loop_vars, local_vars, child, ret, result, events,
              extractions>>
merge_vars == <<m_workspace, m_package, m_merged, m_swapped>>

vars == <<run_vars, merge_vars>>

(***************************************************************************)
(* Bounds of the model.                                                    *)
(***************************************************************************)
MaxNum == 1         \* JSON numbers range over 0..MaxNum
MaxArrayLen == 1    \* JSON arrays hold at most this many elements
MaxPlugins == 2     \* at most this many command-line words after argv[0]
MaxPackages == 2    \* at most this many packages are selected
MaxExitCode == 2    \* a plugin process exits with a code in 0..MaxExitCode
MaxDepth == 2       \* a manifest lies at most this many directories deep
MaxPieces == 3      \* a template is built of at most this many pieces

(***************************************************************************)
(* Option and Result.  An Option is a sequence of length 0 or 1; a Result  *)
(* holds its value or its error the same way.  An error is the fixed text  *)
(* of its message and the name the code interpolates into it (the Display  *)
(* rendering of JSON values in a message is left out).                     *)
(***************************************************************************)
None == <<>>
Some(x) == <<x>>
IsSome(opt) == Len(opt) = 1
Unwrap(opt) == opt[1]

Error(msg, arg) == [msg |-> msg, arg |-> arg]
Ok(x) == [ok |-> TRUE, val |-> <<x>>, err |-> <<>>]
Err(msg, arg) == [ok |-> FALSE, val |-> <<>>, err |-> <<Error(msg, arg)>>]

\* anyhow's with_context: an error gains the message of the operation that
\* was being attempted; the chain is kept innermost first.
WithContext(r, msg, arg) ==
    IF r.ok THEN r ELSE [r EXCEPT !.err = Append(@, Error(msg, arg))]

\* The value of ().
Unit == "()"

\* The result of a call that has not been made yet.
Pending == [ok |-> FALSE, val |-> <<>>, err |-> <<>>]

(***************************************************************************)
(* serde_json::Value: null, boolean, number, string, array or object.      *)
(* Every value carries all six fields and uses the one its kind names.     *)
(***************************************************************************)
Null == [kind |-> "null", b |-> FALSE, n |-> 0, s |-> <<>>, a |-> <<>>, o |-> <<>>]
Bool(b) == [Null EXCEPT !.kind = "bool", !.b = b]
Number(n) == [Null EXCEPT !.kind = "number", !.n = n]
String(s) == [Null EXCEPT !.kind = "string", !.s = s]
Array(a) == [Null EXCEPT !.kind = "array", !.a = a]
Object(o) == [Null EXCEPT !.kind = "object", !.o = o]

Kinds == {"null", "bool", "number", "string", "array", "object"}

\* Value::get(key): the member of an object, None on any other kind.
Get(v, key) ==
    IF v.kind = "object" /\ key \in DOMAIN v.o THEN Some(v.o[key]) ELSE None

\* Map::insert(key, value): adds the key or replaces its value.
Insert(map, key, value) ==
    [k \in DOMAIN map \cup {key} |-> IF k = key THEN value ELSE map[k]]

\* for (key, value) in package_map { merged.insert(key, value) }
RECURSIVE InsertAll(_, _, _)
InsertAll(merged, package_map, keys) ==
    IF keys = {} THEN merged
    ELSE LET key == CHOOSE k \in keys : TRUE
         IN  InsertAll(Insert(merged, key, package_map[key]), package_map,
                       keys \ {key})

\* A mutant of merge_values: the object arm keeps the workspace value of a
\* key that both maps hold.
merge_values_workspace_wins(workspace_value, package_value) ==
    IF workspace_value.kind = "object" /\ package_value.kind = "object"
    THEN Ok(Object(InsertAll(package_value.o, workspace_value.o,
                             DOMAIN workspace_value.o)))
    ELSE IF workspace_value.kind = package_value.kind
    THEN Ok(package_value)
    ELSE Err("cannot merge workspace/package configuration", <<>>)

\* A mutant of merge_values: a null on either side gives way to the other
\* side instead of conflicting with it.
merge_values_null_yields(workspace_value, package_value) ==
    IF workspace_value.kind = "object" /\ package_value.kind = "object"
    THEN Ok(Object(InsertAll(workspace_value.o, package_value.o,
                             DOMAIN package_value.o)))
    ELSE IF workspace_value.kind = package_value.kind
            \/ workspace_value.kind = "null"
    THEN Ok(package_value)
    ELSE IF package_value.kind = "null"
    THEN Ok(workspace_value)
    ELSE Err("cannot merge workspace/package configuration", <<>>)

\* A mutant of merge_values: the same-kind arm returns the workspace value.
merge_values_keeps_workspace(workspace_value, package_value) ==
    IF workspace_value.kind = "object" /\ package_value.kind = "object"
    THEN Ok(Object(InsertAll(workspace_value.o, package_value.o,
                             DOMAIN package_value.o)))
    ELSE IF workspace_value.kind = package_value.kind
    THEN Ok(workspace_value)
    ELSE Err("cannot merge workspace/package configuration", <<>>)

\* merge_values: the arms of the match, tried in the order of the source.
merge_values(workspace_value, package_value) ==
    LET w == workspace_value.kind
        p == package_value.kind
        NotObject == {"null", "number", "bool", "string", "array"}
    IN  IF w = "null" /\ p = "null"
        THEN Ok(Null)
        ELSE IF \/ w = "number" /\ p = "number"
                \/ w = "bool" /\ p = "bool"
                \/ w = "string" /\ p = "string"
                \/ w = "array" /\ p = "array"
        THEN Ok(package_value)
        ELSE IF w = "object" /\ p = "object"
        THEN Ok(Object(InsertAll(workspace_value.o, package_value.o,
                                 DOMAIN package_value.o)))
        ELSE IF w \in NotObject \/ p \in NotObject
        THEN Err("cannot merge workspace/package configuration", <<>>)
        ELSE Err("no arm of the match applies", <<>>)

\* merge_metadata
merge_metadata(workspace, package) ==
    IF IsSome(workspace) /\ IsSome(package)
    THEN merge_values(Unwrap(workspace), Unwrap(package))
    ELSE IF IsSome(workspace)
    THEN Ok(Unwrap(workspace))
    ELSE IF IsSome(package)
    THEN Ok(Unwrap(package))
    ELSE Ok(Null)

(***************************************************************************)
(* The configuration trees the merger is applied to.                       *)
(***************************************************************************)
MergeKeys == {<<"a">>, <<"b">>}

Numbers == {Number(n) : n \in 0..MaxNum}
Strings == {String(<<"x">>), String(<<"y">>)}
Arrays == UNION {{Array(a) : a \in [1..n -> Numbers]} : n \in 0..MaxArrayLen}
Leaves == {Null, Bool(TRUE), Bool(FALSE)} \cup Numbers \cup Strings \cup Arrays

\* The values found under a key: every kind, nested objects included.
MemberValues ==
    {Null, Bool(TRUE), Number(0), Number(MaxNum), String(<<"x">>),
     Array(<<>>), Array(<<Number(0)>>),
     Object(<<>>), Object([k \in {<<"a">>} |-> Number(0)]),
     Object([k \in {<<"b">>} |-> Number(MaxNum)])}

Objects == UNION {{Object(m) : m \in [D -> MemberValues]} : D \in SUBSET MergeKeys}

Trees == Leaves \cup Objects

OptionalTrees == {None} \cup {Some(t) : t \in Trees}

(***************************************************************************)
(* Strings (sequences of characters) the code names.                       *)
(***************************************************************************)
GluegunKey == <<"g", "l", "u", "e", "g", "u", "n">>
DestinationPathKey ==
    <<"d", "e", "s", "t", "i", "n", "a", "t", "i", "o", "n", "-", "p", "a", "t", "h">>
PluginCommandKey ==
    <<"p", "l", "u", "g", "i", "n", "-", "c", "o", "m", "m", "a", "n", "d">>
ChildName == <<"c", "h", "i", "l", "d">>
SiblingName == <<"s", "i", "b", "l", "i", "n", "g">>
GluegunPrefix == <<"g", "l", "u", "e", "g", "u", "n", "-">>
GgPrefix == <<"g", "g", "-">>
PluginPlaceholder == <<"{", "p", "l", "u", "g", "i", "n", "}">>
Apostrophe == "'"
Whitespace == {" ", "\t", "\n"}

\* str::starts_with
StartsWith(s, pat) == Len(s) >= Len(pat) /\ SubSeq(s, 1, Len(pat)) = pat

\* str::replace(pat, to): every non-overlapping match, from the left.
RECURSIVE Replace(_, _, _)
Replace(s, pat, to) ==
    IF s = <<>> THEN <<>>
    ELSE IF StartsWith(s, pat)
    THEN to \o Replace(SubSeq(s, Len(pat) + 1, Len(s)), pat, to)
    ELSE <<Head(s)>> \o Replace(Tail(s), pat, to)

\* str::contains(char)
Contains(s, ch) == \E k \in 1..Len(s) : s[k] = ch

\* str::split_whitespace: the maximal runs of non-whitespace characters.
\* `word` is the run being read, `words` the runs already closed.
RECURSIVE SplitWords(_, _, _)
SplitWords(s, word, words) ==
    IF s = <<>>
    THEN IF word = <<>> THEN words ELSE Append(words, word)
    ELSE IF Head(s) \in Whitespace
    THEN SplitWords(Tail(s), <<>>,
                    IF word = <<>> THEN words ELSE Append(words, word))
    ELSE SplitWords(Tail(s), Append(word, Head(s)), words)

split_whitespace(s) == SplitWords(s, <<>>, <<>>)

(***************************************************************************)
(* Utf8Path: an absolute path is the sequence of its components below the  *)
(* root; the root itself is the empty sequence and has no parent.          *)
(***************************************************************************)
Parent(path) ==
    IF path = <<>> THEN None ELSE Some(SubSeq(path, 1, Len(path) - 1))

\* Utf8Path::join of one relative component
Join(path, name) == Append(path, name)

\* The text of a path, as a message shows it; the root is "/".
RECURSIVE BelowRoot(_)
BelowRoot(path) ==
    IF path = <<>> THEN <<>> ELSE <<"/">> \o Head(path) \o BelowRoot(Tail(path))

PathText(path) == IF path = <<>> THEN <<"/">> ELSE BelowRoot(path)

(***************************************************************************)
(* std::process::Command as the engine uses it.                            *)
(***************************************************************************)
\* Command::new(program)
NewCommand(program) ==
    [program |-> program, args |-> <<>>, current_dir |-> None, stdin |-> "inherit"]

\* str::replacen(pat, to, 1): the first match only.
RECURSIVE ReplaceFirst(_, _, _)
ReplaceFirst(s, pat, to) ==
    IF s = <<>> THEN <<>>
    ELSE IF StartsWith(s, pat)
    THEN to \o SubSeq(s, Len(pat) + 1, Len(s))
    ELSE <<Head(s)>> \o ReplaceFirst(Tail(s), pat, to)

\* A mutant of customized_plugin_command: only the first {plugin} is
\* replaced.
customized_plugin_command_first_only(gluegun, plugin) ==
    LET plugin_command == Get(gluegun, PluginCommandKey)
    IN  IF ~IsSome(plugin_command)
        THEN Ok(None)
        ELSE IF Unwrap(plugin_command).kind # "string"
        THEN Err("expected a string for workspace configuration gluegun.plugin_command", <<>>)
        ELSE LET s == ReplaceFirst(Unwrap(plugin_command).s, PluginPlaceholder, plugin)
                 words == split_whitespace(s)
             IN  IF Contains(s, Apostrophe)
                 THEN Err("gluegun.plugin_command cannot contain apostrophe characters (FIXME)", <<>>)
                 ELSE IF words = <<>>
                 THEN Err("expected at least one word in gluegun.plugin_command", <<>>)
                 ELSE Ok(Some([NewCommand(Head(words)) EXCEPT !.args = Tail(words)]))

\* Builder::customized_plugin_command
customized_plugin_command(gluegun, plugin) ==
    LET plugin_command == Get(gluegun, PluginCommandKey)
    IN  IF ~IsSome(plugin_command)
        THEN Ok(None)
        ELSE IF Unwrap(plugin_command).kind # "string"
        THEN Err("expected a string for workspace configuration gluegun.plugin_command", <<>>)
        ELSE LET s == Replace(Unwrap(plugin_command).s, PluginPlaceholder, plugin)
                 words == split_whitespace(s)
             IN  IF Contains(s, Apostrophe)
                 THEN Err("gluegun.plugin_command cannot contain apostrophe characters (FIXME)", <<>>)
                 ELSE IF words = <<>>
                 THEN Err("expected at least one word in gluegun.plugin_command", <<>>)
                 ELSE Ok(Some([NewCommand(Head(words)) EXCEPT !.args = Tail(words)]))

\* A mutant of default_plugin_command: the default program is named with
\* the prefix of the trailing argument.
default_plugin_command_gg(gluegun, plugin) ==
    LET c == customized_plugin_command(gluegun, plugin)
    IN  IF ~c.ok
        THEN c
        ELSE IF IsSome(Unwrap(c.val))
        THEN Ok(Unwrap(Unwrap(c.val)))
        ELSE Ok(NewCommand(GgPrefix \o plugin))

\* Builder::default_plugin_command
default_plugin_command(gluegun, plugin) ==
    LET c == customized_plugin_command(gluegun, plugin)
    IN  IF ~c.ok
        THEN c
        ELSE IF IsSome(Unwrap(c.val))
        THEN Ok(Unwrap(Unwrap(c.val)))
        ELSE Ok(NewCommand(GluegunPrefix \o plugin))

\* A command-builder a caller installs with Builder::plugin_command: it wraps
\* the plugin in a runner of its own and sets a directory of its own.
CallerDirectory == <<<<"o", "p", "t">>>>
CallerProgram == <<"r", "u", "n", "n", "e", "r">>
caller_plugin_command(gluegun, plugin) ==
    Ok([NewCommand(CallerProgram) EXCEPT
            !.args = <<plugin>>, !.current_dir = Some(CallerDirectory)])

\* A mutant of configure_command: the trailing argument is left out.
configure_command_without_arg(plugin_command, current_directory, plugin) ==
    [plugin_command EXCEPT
        !.current_dir = Some(current_directory),
        !.stdin = "piped"]

\* execute_plugin's configuration of the command the builder returned.
configure_command(plugin_command, current_directory, plugin) ==
    [plugin_command EXCEPT
        !.current_dir = Some(current_directory),
        !.args = Append(@, GgPrefix \o plugin),
        !.stdin = "piped"]

(***************************************************************************)
(* DestinationPath and dest_crate_name_and_path.                           *)
(***************************************************************************)
\* A mutant of DestinationPath_from_value: a value that names no placement
\* falls back to Child.
DestinationPath_from_value_lenient(v) ==
    IF v.kind = "string" /\ v.s = SiblingName THEN Ok("Sibling") ELSE Ok("Child")

\* serde_json::from_value::<DestinationPath>, with rename_all = "lowercase"
DestinationPath_from_value(v) ==
    IF v.kind = "string" /\ v.s = ChildName THEN Ok("Child")
    ELSE IF v.kind = "string" /\ v.s = SiblingName THEN Ok("Sibling")
    ELSE Err("unknown variant, expected child or sibling", <<>>)

\* A mutant of dest_crate_name_and_path: the two placements are exchanged.
dest_crate_name_and_path_exchanged(plugin, gluegun, package) ==
    LET v == Get(gluegun, DestinationPathKey)
        dp == IF IsSome(v) THEN DestinationPath_from_value(Unwrap(v)) ELSE Ok("Child")
        crate_name == package.name \o <<"-">> \o plugin
        manifest_parent == Parent(package.manifest_path)
        package_parent ==
            IF Unwrap(dp.val) = "Sibling"
            THEN manifest_parent
            ELSE IF IsSome(manifest_parent) THEN Parent(Unwrap(manifest_parent)) ELSE None
    IN  IF ~dp.ok
        THEN dp
        ELSE IF ~IsSome(package_parent)
        THEN Err("cannot compute parent path for crate at",
                 PathText(package.manifest_path))
        ELSE Ok([crate_name |-> crate_name,
                 crate_path |-> Join(Unwrap(package_parent), crate_name)])

dest_crate_name_and_path(plugin, gluegun, package) ==
    LET v == Get(gluegun, DestinationPathKey)
        dp == IF IsSome(v) THEN DestinationPath_from_value(Unwrap(v)) ELSE Ok("Child")
        crate_name == package.name \o <<"-">> \o plugin
        manifest_parent == Parent(package.manifest_path)
        package_parent ==
            IF Unwrap(dp.val) = "Child"
            THEN manifest_parent
            ELSE IF IsSome(manifest_parent) THEN Parent(Unwrap(manifest_parent)) ELSE None
    IN  IF ~dp.ok
        THEN dp
        ELSE IF ~IsSome(package_parent)
        THEN Err("cannot compute parent path for crate at",
                 PathText(package.manifest_path))
        ELSE Ok([crate_name |-> crate_name,
                 crate_path |-> Join(Unwrap(package_parent), crate_name)])

(***************************************************************************)
(* The inputs of a run: the command line, and what cargo metadata reports. *)
(***************************************************************************)
Java == <<"j", "a", "v", "a">>
Py == <<"p", "y">>
PluginNames == {Java, Py}
UnknownFlag == <<"-", "-", "x">>

\* The words after argv[0]: plugin names, or an option clap does not know.
\* The package-selection options are not words of the model: what they
\* select is part of what partition_packages answers.
ArgLists == UNION {[1..n -> PluginNames \cup {UnknownFlag}] : n \in 0..MaxPlugins}

CurrentDirectory == <<<<"w", "s">>>>
CargoToml == <<"C", "a", "r", "g", "o", ".", "t", "o", "m", "l">>

Obj1(k1, v1) == Object([k \in {k1} |-> v1])
Obj2(k1, v1, k2, v2) == Object([k \in {k1, k2} |-> IF k = k1 THEN v1 ELSE v2])

\* cargo_metadata::Package: name, source, manifest_path, metadata.  cargo
\* reports the manifest path as the absolute path of a file.
Foo ==
    [name |-> <<"f", "o", "o">>, source |-> None,
     manifest_path |-> <<<<"w", "s">>, <<"f", "o", "o">>, CargoToml>>,
     metadata |-> Null]
Bar ==
    [name |-> <<"b", "a", "r">>, source |-> None,
     manifest_path |-> <<<<"w", "s">>, <<"b", "a", "r">>, CargoToml>>,
     metadata |->
        Obj1(GluegunKey,
             Obj2(DestinationPathKey, String(SiblingName),
                  Java, Obj1(<<"a">>, Number(MaxNum))))]
Ext ==
    [name |-> <<"e", "x", "t">>, source |-> Some(<<"r", "e", "g">>),
     manifest_path |-> <<<<"r", "e", "g">>, <<"e", "x", "t">>, CargoToml>>,
     metadata |-> Null]
Top ==
    [name |-> <<"t", "o", "p">>, source |-> None,
     manifest_path |-> <<CargoToml>>,
     metadata |-> Obj1(GluegunKey, Obj1(Java, String(<<"x">>)))]

\* The packages of the workspace, in the order cargo reports them.
PackagePool == <<Foo, Bar, Ext, Top>>

\* The elements of a sequence at the indices of a set, in order.
RECURSIVE Pick(_, _, _)
Pick(seq, indices, from) ==
    IF from > Len(seq) THEN <<>>
    ELSE IF from \in indices
    THEN <<seq[from]>> \o Pick(seq, indices, from + 1)
    ELSE Pick(seq, indices, from + 1)

\* What Workspace::partition_packages can select.
Selections ==
    {Pick(PackagePool, indices, 1) :
        indices \in {x \in SUBSET (1..Len(PackagePool)) : Cardinality(x) <= MaxPackages}}

RunTemplate == <<"r", "u", "n", " ", "{", "p", "l", "u", "g", "i", "n", "}", " ", "-", "q">>

\* metadata.workspace_metadata
WorkspaceMetadatas ==
    {Null,
     Obj1(GluegunKey, Obj1(PluginCommandKey, String(RunTemplate))),
     Obj1(GluegunKey,
          Obj2(DestinationPathKey, String(SiblingName),
               Java, Obj2(<<"a">>, Number(0), <<"b">>, Number(0)))),
     Obj1(GluegunKey, String(<<"x">>)),
     Obj1(GluegunKey, Obj1(DestinationPathKey, String(<<"S", "i", "b", "l", "i", "n", "g">>))),
     Obj1(GluegunKey, Obj1(PluginCommandKey, Number(0)))}

(***************************************************************************)
(* The workspaces destination resolution is checked over: one package,     *)
(* whose manifest lies at any depth down to the root itself, under every   *)
(* kind of value of destination-path.                                      *)
(***************************************************************************)
DirNames == {<<"w", "s">>, <<"f", "o", "o">>}
ManifestDirs == UNION {[1..d -> DirNames] : d \in 0..MaxDepth}

\* Package::manifest_path is a Utf8PathBuf: the type admits a path that has
\* no parent.
ManifestPaths == {<<>>} \cup {Append(dir, CargoToml) : dir \in ManifestDirs}

DestinationPackages ==
    [name : {Foo.name}, source : {None}, manifest_path : ManifestPaths,
     metadata : {Null,
                 Obj1(GluegunKey, Obj1(DestinationPathKey, String(SiblingName)))}]

DestinationPathValues ==
    {String(ChildName), String(SiblingName),
     String(<<"S", "i", "b", "l", "i", "n", "g">>), String(<<"x">>),
     Null, Number(0), Bool(TRUE)}

DestinationMetadatas ==
    {Null,
     Obj1(GluegunKey, Null),
     Obj1(GluegunKey, Obj1(Java, Number(0))),
     Obj1(GluegunKey, Obj2(DestinationPathKey, String(SiblingName),
                           PluginCommandKey, String(RunTemplate)))}
    \cup {Obj1(GluegunKey, Obj1(DestinationPathKey, v)) : v \in DestinationPathValues}

(***************************************************************************)
(* The workspaces the built-in command-builder is checked over: the        *)
(* package Foo under every template of up to MaxPieces pieces, and under   *)
(* values of plugin-command that are not strings.                          *)
(***************************************************************************)
TemplatePieces == {<<"r">>, <<" ">>, <<"{">>, <<Apostrophe>>, PluginPlaceholder}
PieceLists == UNION {[1..n -> TemplatePieces] : n \in 0..MaxPieces}

RECURSIVE Concat(_)
Concat(pieces) ==
    IF pieces = <<>> THEN <<>> ELSE Head(pieces) \o Concat(Tail(pieces))

MyRunnerTemplate ==
    <<"m", "y", "-", "r", "u", "n", "n", "e", "r", " ">> \o PluginPlaceholder
        \o <<" ", "-", "-", "f", "a", "s", "t">>

Templates == {Concat(pieces) : pieces \in PieceLists} \cup {MyRunnerTemplate}

PluginCommandValues == {String(t) : t \in Templates} \cup {Null, Number(0), Bool(TRUE)}

TemplateMetadatas ==
    {Null,
     Obj1(GluegunKey, Null),
     Obj1(GluegunKey, Obj1(Java, Number(0)))}
    \cup {Obj1(GluegunKey, Obj1(PluginCommandKey, v)) : v \in PluginCommandValues}

\* What the cargo metadata query reports and partition_packages selects, in
\* the universe of the run.
\* The workspaces termination is checked over: every selection of packages
\* and every list of plugins, beside a workspace table that is absent or
\* one the first merge rejects.
SchedulingMetadatas == {Null, Obj1(GluegunKey, String(<<"x">>))}

Reported ==
    CASE universe = "workspace" -> WorkspaceMetadatas
      [] universe = "destinations" -> DestinationMetadatas
      [] universe = "templates" -> TemplateMetadatas
      [] universe = "scheduling" -> SchedulingMetadatas

Selected ==
    CASE universe = "workspace" -> Selections
      [] universe = "destinations" -> {<<p>> : p \in DestinationPackages}
      [] universe = "templates" -> {<<Foo>>}
      [] universe = "scheduling" -> Selections

(***************************************************************************)
(* What is written to the plugin: the eight writeln! of write_data.        *)
(***************************************************************************)
\* {:?} of a str or of a Utf8PathBuf: the text between double quotes, with
\* a backslash before each double quote and each backslash.
DoubleQuote == "\""
Backslash == "\\"

RECURSIVE EscapeDebug(_)
EscapeDebug(s) ==
    IF s = <<>> THEN <<>>
    ELSE IF Head(s) \in {DoubleQuote, Backslash}
    THEN <<Backslash, Head(s)>> \o EscapeDebug(Tail(s))
    ELSE <<Head(s)>> \o EscapeDebug(Tail(s))

Debug(s) == <<DoubleQuote>> \o EscapeDebug(s) \o <<DoubleQuote>>

\* A line written to the plugin: the key it opens with (or ""), what follows
\* the key -- the JSON text of the IDL or of a value, which stands here as
\* the IDL or the value it is the text of, or a quoted string -- and whether
\* the line opens or closes an object.
Line(key, an_idl, json, text, brace) ==
    [key |-> key, idl |-> an_idl, json |-> json, text |-> text, brace |-> brace]

\* A mutant of Handshake: the metadata are written before the IDL.
Handshake_metadata_first(an_idl, metadata, crate_name, crate_path) ==
    <<Line("", None, None, None, "open"),
      Line("metadata", None, Some(metadata), None, ""),
      Line("idl", Some(an_idl), None, None, ""),
      Line("dest_crate", None, None, None, "open"),
      Line("crate_name", None, None, Some(Debug(crate_name)), ""),
      Line("path", None, None, Some(Debug(PathText(crate_path))), ""),
      Line("", None, None, None, "close"),
      Line("", None, None, None, "close")>>

Handshake(an_idl, metadata, crate_name, crate_path) ==
    <<Line("", None, None, None, "open"),
      Line("idl", Some(an_idl), None, None, ""),
      Line("metadata", None, Some(metadata), None, ""),
      Line("dest_crate", None, None, None, "open"),
      Line("crate_name", None, None, Some(Debug(crate_name)), ""),
      Line("path", None, None, Some(Debug(PathText(crate_path))), ""),
      Line("", None, None, None, "close"),
      Line("", None, None, None, "close")>>

NoChild == [state |-> "none", code |-> 0, stdin |-> "none", received |-> <<>>,
            command |-> None]

ExitCodes == 0..MaxExitCode

\* A mutant of Success: the code 1 counts as success too.
Success_up_to_one(status) == status <= 1

\* ExitStatus::success
Success(status) == status = 0

\* The exit code of the process: cli_main's caller is a main that returns
\* the anyhow::Result, which Rust ends with 0 on Ok and with 1 on Err.
main(execute_result) == IF execute_result.ok THEN 0 ELSE 1

(***************************************************************************)
(* Spec: one run of the engine, from the constructed Builder to the return *)
(* of execute.                                                             *)
(***************************************************************************)
MergeIdle ==
    /\ m_workspace = None
    /\ m_package = None
    /\ m_merged = Pending
    /\ m_swapped = Pending

\* Builder::new
BuilderNew ==
    /\ builder \in [current_directory : {CurrentDirectory},
                    args : ArgLists,
                    plugin_command : {"default"}]
    /\ pc = "new"
    /\ cli_plugins = <<>>
    /\ workspace_metadata = Null
    /\ selected = <<>>
    /\ package_i = 0
    /\ plugin_j = 0
    /\ idl = None
    /\ gluegun_metadata = None
    /\ plugin_metadata = None
    /\ dest = None
    /\ built = None
    /\ command = None
    /\ child = NoChild
    /\ exit_status = None
    /\ ret = Pending
    /\ result = Pending
    /\ events = <<>>
    /\ extractions = 0

Init == BuilderNew /\ universe = "workspace" /\ MergeIdle

package == selected[package_i]
plugin == cli_plugins[plugin_j]

Event(op) == [op |-> op, package |-> package_i, plugin |-> plugin_j]

\* apply_plugin returns r to execute, after the operations ops.
Return(ops, r) ==
    /\ ret' = r
    /\ pc' = "loop"
    /\ events' = events \o [k \in 1..Len(ops) |-> Event(ops[k])]
                        \o <<Event(IF r.ok THEN "return_ok" ELSE "return_err")>>

\* apply_plugin goes on to the step next, after the operation op.
Goto(op, next) ==
    /\ pc' = next
    /\ events' = Append(events, Event(op))
    /\ UNCHANGED ret

\* execute returns r.
Finish(r) ==
    /\ result' = r
    /\ pc' = "done"

\* Builder::plugin_command: the caller installs a command-builder.
plugin_command ==
    /\ pc = "new"
    /\ builder.plugin_command = "default"
    /\ builder' = [builder EXCEPT !.plugin_command = "caller"]
    /\ UNCHANGED <<universe, pc, cli_plugins, workspace_metadata, selected,
                   loop_vars, local_vars, child, ret, result, events, extractions,
                   merge_vars>>

\* execute: Cli::try_parse_from(&self.args)?
execute_parse ==
    /\ pc = "new"
    /\ IF \E k \in 1..Len(builder.args) : StartsWith(builder.args[k], <<"-">>)
       THEN /\ Finish(Err("unexpected argument", <<>>))
            /\ UNCHANGED cli_plugins
       ELSE /\ cli_plugins' = builder.args
            /\ pc' = "metadata"
            /\ UNCHANGED result
    /\ UNCHANGED <<universe, builder, workspace_metadata, selected, loop_vars,
                   local_vars, child, ret, events, extractions, merge_vars>>

\* execute: the cargo metadata query and partition_packages
execute_metadata ==
    /\ pc = "metadata"
    /\ \/ /\ Finish(Err("cargo metadata failed", <<>>))
          /\ UNCHANGED <<workspace_metadata, selected>>
       \/ /\ workspace_metadata' \in Reported
          /\ selected' \in Selected
          /\ pc' = "check_selected"
          /\ UNCHANGED result
    /\ UNCHANGED <<universe, builder, cli_plugins, loop_vars, local_vars, child,
                   ret, events, extractions, merge_vars>>

\* execute: if selected.is_empty() { bail }
execute_check_selected ==
    /\ pc = "check_selected"
    /\ IF selected = <<>>
       THEN Finish(Err("no packages selected -- you may have misspelled the package name?", <<>>))
       ELSE pc' = "check_plugins" /\ UNCHANGED result
    /\ UNCHANGED <<input_vars, loop_vars, local_vars, child, ret, events,
                   extractions, merge_vars>>

\* A mutant of execute_check_plugins: the check is left out.
execute_check_plugins_skipped ==
    /\ pc = "check_plugins"
    /\ pc' = "loop"
    /\ package_i' = 1
    /\ plugin_j' = 0
    /\ ret' = Ok(Unit)
    /\ UNCHANGED <<input_vars, local_vars, child, result, events, extractions,
                   merge_vars>>

\* execute: if cli.plugins.is_empty() { bail }; then the loops are entered.
execute_check_plugins ==
    /\ pc = "check_plugins"
    /\ IF cli_plugins = <<>>
       THEN /\ Finish(Err("no plugins specified", <<>>))
            /\ UNCHANGED <<loop_vars, ret>>
       ELSE /\ pc' = "loop"
            /\ package_i' = 1
            /\ plugin_j' = 0
            /\ ret' = Ok(Unit)
            /\ UNCHANGED result
    /\ UNCHANGED <<input_vars, local_vars, child, events, extractions, merge_vars>>

\* A mutant of NextCycle: the loops are nested the other way round.
NextCyclePluginMajor(i, j, n, m) ==
    IF j = 0 THEN IF n > 0 /\ m > 0 THEN Some(<<1, 1>>) ELSE None
    ELSE IF i < n THEN Some(<<i + 1, j>>)
    ELSE IF j < m THEN Some(<<1, j + 1>>)
    ELSE None

\* for package in selected { for plugin in &cli.plugins { .. } }: the
\* iteration after (i, j), of n packages and m plugins.
NextCycle(i, j, n, m) ==
    IF i > n THEN None
    ELSE IF j < m THEN Some(<<i, j + 1>>)
    ELSE IF i < n /\ m > 0 THEN Some(<<i + 1, 1>>)
    ELSE None

\* A mutant of execute_loop: the error of a cycle is dropped and the loops
\* go on.
execute_loop_ignoring_errors ==
    /\ pc = "loop"
    /\ LET next == NextCycle(package_i, plugin_j, Len(selected), Len(cli_plugins))
       IN  IF ~IsSome(next)
           THEN /\ Finish(Ok(Unit))
                /\ UNCHANGED <<loop_vars, local_vars, child>>
           ELSE /\ package_i' = Unwrap(next)[1]
                /\ plugin_j' = Unwrap(next)[2]
                /\ pc' = "apply_plugin"
                /\ idl' = None /\ gluegun_metadata' = None /\ plugin_metadata' = None
                /\ dest' = None /\ built' = None /\ command' = None
                /\ exit_status' = None /\ child' = NoChild
                /\ UNCHANGED result
    /\ UNCHANGED <<input_vars, ret, events, extractions, merge_vars>>

\* execute: self.apply_plugin(..)? inside the two loops, and Ok(()) after.
execute_loop ==
    /\ pc = "loop"
    /\ LET next == NextCycle(package_i, plugin_j, Len(selected), Len(cli_plugins))
       IN  IF ~ret.ok
           THEN /\ Finish(ret)
                /\ UNCHANGED <<loop_vars, local_vars, child>>
           ELSE IF ~IsSome(next)
           THEN /\ Finish(Ok(Unit))
                /\ UNCHANGED <<loop_vars, local_vars, child>>
           ELSE /\ package_i' = Unwrap(next)[1]
                /\ plugin_j' = Unwrap(next)[2]
                /\ pc' = "apply_plugin"
                /\ idl' = None /\ gluegun_metadata' = None /\ plugin_metadata' = None
                /\ dest' = None /\ built' = None /\ command' = None
                /\ exit_status' = None /\ child' = NoChild
                /\ UNCHANGED result
    /\ UNCHANGED <<input_vars, ret, events, extractions, merge_vars>>

\* A mutant of apply_plugin_source: a package with an external source is
\* let through to the extractor.
apply_plugin_source_unchecked ==
    /\ pc = "apply_plugin"
    /\ Goto("apply_plugin", "extract")
    /\ UNCHANGED <<input_vars, loop_vars, local_vars, child, result,
                   extractions, merge_vars>>

\* apply_plugin: if let Some(_) = package.source { bail }
apply_plugin_source ==
    /\ pc = "apply_plugin"
    /\ IF IsSome(package.source)
       THEN Return(<<"apply_plugin">>,
                   Err("can only process local packages", package.name))
       ELSE Goto("apply_plugin", "extract")
    /\ UNCHANGED <<input_vars, loop_vars, local_vars, child, result,
                   extractions, merge_vars>>

\* apply_plugin: manifest_path.parent().unwrap(), then the extractor
\* gluegun_idl::Parser::parse_crate_named, which answers an IDL or an error.
\* An IDL is known by its crate and by the invocation that produced it.
apply_plugin_extract ==
    /\ pc = "extract"
    /\ IF ~IsSome(Parent(package.manifest_path))
       THEN /\ pc' = "panicked"
            /\ UNCHANGED <<idl, ret, events, extractions>>
       ELSE LET manifest_dir == Unwrap(Parent(package.manifest_path))
                src_lib_rs == Join(Join(manifest_dir, <<"s", "r", "c">>),
                                   <<"l", "i", "b", ".", "r", "s">>)
            IN  /\ extractions' = extractions + 1
                /\ \/ /\ idl' = Some([crate_name |-> package.name,
                                      serial |-> extractions + 1])
                      /\ Goto("extract", "merge_gluegun")
                   \/ /\ Return(<<"extract">>,
                                WithContext(Err("the crate does not parse", <<>>),
                                            "extracting interface from",
                                            PathText(src_lib_rs)))
                      /\ UNCHANGED idl
    /\ UNCHANGED <<input_vars, loop_vars, gluegun_metadata, plugin_metadata, dest,
                   built, command, exit_status, child, result, merge_vars>>

\* apply_plugin: the merge of the two scopes' gluegun trees
apply_plugin_merge_gluegun ==
    /\ pc = "merge_gluegun"
    /\ LET gluegun_workspace_metadata == Get(workspace_metadata, GluegunKey)
           gluegun_package_metadata == Get(package.metadata, GluegunKey)
           r == merge_metadata(gluegun_workspace_metadata, gluegun_package_metadata)
       IN  IF r.ok
           THEN /\ gluegun_metadata' = Some(Unwrap(r.val))
                /\ Goto("merge_gluegun", "merge_plugin")
           ELSE /\ Return(<<"merge_gluegun">>,
                          WithContext(r, "merging workspace and package metadata", <<>>))
                /\ UNCHANGED gluegun_metadata
    /\ UNCHANGED <<input_vars, loop_vars, idl, plugin_metadata, dest, built,
                   command, exit_status, child, result, extractions, merge_vars>>

\* Option::and_then(|v| v.get(plugin))
AndThenGet(opt, key) == IF IsSome(opt) THEN Get(Unwrap(opt), key) ELSE None

\* A mutant of apply_plugin_merge_plugin: the plugin's tree is read out of
\* the gluegun tree that is merged already.
apply_plugin_merge_plugin_one_pass ==
    /\ pc = "merge_plugin"
    /\ LET merged == Get(Unwrap(gluegun_metadata), plugin)
       IN  plugin_metadata' = Some(IF IsSome(merged) THEN Unwrap(merged) ELSE Null)
    /\ Goto("merge_plugin", "dest")
    /\ UNCHANGED <<input_vars, loop_vars, idl, gluegun_metadata, dest, built,
                   command, exit_status, child, result, extractions, merge_vars>>

\* apply_plugin: the merge of the two scopes' trees of this plugin
apply_plugin_merge_plugin ==
    /\ pc = "merge_plugin"
    /\ LET gluegun_workspace_metadata == Get(workspace_metadata, GluegunKey)
           gluegun_package_metadata == Get(package.metadata, GluegunKey)
           plugin_workspace_metadata == AndThenGet(gluegun_workspace_metadata, plugin)
           plugin_package_metadata == AndThenGet(gluegun_package_metadata, plugin)
           r == merge_metadata(plugin_workspace_metadata, plugin_package_metadata)
       IN  IF r.ok
           THEN /\ plugin_metadata' = Some(Unwrap(r.val))
                /\ Goto("merge_plugin", "dest")
           ELSE /\ Return(<<"merge_plugin">>,
                          WithContext(r, "merging workspace and package metadata", <<>>))
                /\ UNCHANGED plugin_metadata
    /\ UNCHANGED <<input_vars, loop_vars, idl, gluegun_metadata, dest, built,
                   command, exit_status, child, result, extractions, merge_vars>>

\* apply_plugin: dest_crate_name_and_path(plugin, &gluegun_metadata, package)
apply_plugin_dest ==
    /\ pc = "dest"
    /\ LET r == dest_crate_name_and_path(plugin, Unwrap(gluegun_metadata), package)
       IN  IF r.ok
           THEN /\ dest' = Some(Unwrap(r.val))
                /\ Goto("dest", "plugin_command")
           ELSE /\ Return(<<"dest">>,
                          WithContext(r, "computing destination crate name and path", <<>>))
                /\ UNCHANGED dest
    /\ UNCHANGED <<input_vars, loop_vars, idl, gluegun_metadata, plugin_metadata,
                   built, command, exit_status, child, result, extractions,
                   merge_vars>>

\* What execute_plugin's errors gain on the way out of apply_plugin.
Executing(r) == WithContext(r, "executing plugin", plugin)

\* execute_plugin: (self.plugin_command)(gluegun_metadata, plugin): the
\* built-in strategy, or the caller's, which may fail for reasons of its own.
execute_plugin_command ==
    /\ pc = "plugin_command"
    /\ \/ LET r == IF builder.plugin_command = "default"
                   THEN default_plugin_command(Unwrap(gluegun_metadata), plugin)
                   ELSE caller_plugin_command(Unwrap(gluegun_metadata), plugin)
          IN  IF r.ok
              THEN /\ built' = Some(Unwrap(r.val))
                   /\ Goto("plugin_command", "configure")
              ELSE /\ Return(<<"plugin_command">>,
                             Executing(WithContext(r, "creating plugin command", <<>>)))
                   /\ UNCHANGED built
       \/ /\ builder.plugin_command = "caller"
          /\ Return(<<"plugin_command">>,
                    Executing(WithContext(Err("the caller's command-builder failed", <<>>),
                                          "creating plugin command", <<>>)))
          /\ UNCHANGED built
    /\ UNCHANGED <<input_vars, loop_vars, idl, gluegun_metadata, plugin_metadata,
                   dest, command, exit_status, child, result, extractions, merge_vars>>

\* execute_plugin: current_dir, arg, stdin, stdout, stderr
execute_plugin_configure ==
    /\ pc = "configure"
    /\ command' = Some(configure_command(Unwrap(built), builder.current_directory, plugin))
    /\ Goto("configure", "spawn")
    /\ UNCHANGED <<input_vars, loop_vars, idl, gluegun_metadata, plugin_metadata,
                   dest, built, exit_status, child, result, extractions, merge_vars>>

\* execute_plugin: plugin_command.spawn(): a process with its stdin handle,
\* or an error.
execute_plugin_spawn ==
    /\ pc = "spawn"
    /\ \/ /\ \E handle \in {"piped", "none"} :
                child' = [state |-> "running", code |-> 0, stdin |-> handle,
                          received |-> <<>>, command |-> command]
          /\ Goto("spawn", "take_stdin")
       \/ /\ Return(<<"spawn">>,
                    Executing(WithContext(Err("the program cannot be run", <<>>),
                                          "spawning gluegun-", plugin)))
          /\ UNCHANGED child
    /\ UNCHANGED <<input_vars, loop_vars, local_vars, result, extractions, merge_vars>>

\* A mutant of execute_plugin_take_stdin: without a handle nothing is
\* written and the process is waited for all the same.
execute_plugin_take_stdin_lenient ==
    /\ pc = "take_stdin"
    /\ IF child.stdin = "piped"
       THEN /\ child' = [child EXCEPT !.stdin = "taken"]
            /\ Goto("take_stdin", "write")
       ELSE /\ Goto("take_stdin", "wait")
            /\ UNCHANGED child
    /\ UNCHANGED <<input_vars, loop_vars, local_vars, result, extractions, merge_vars>>

\* execute_plugin: let Some(stdin) = child.stdin.take() else { bail }
execute_plugin_take_stdin ==
    /\ pc = "take_stdin"
    /\ IF child.stdin = "piped"
       THEN /\ child' = [child EXCEPT !.stdin = "taken"]
            /\ Goto("take_stdin", "write")
       ELSE /\ Return(<<"take_stdin">>, Executing(Err("failed to take stdin", <<>>)))
            /\ UNCHANGED child
    /\ UNCHANGED <<input_vars, loop_vars, local_vars, result, extractions, merge_vars>>

\* A mutant of drop_stdin: the handle outlives write_data.
drop_stdin_leaked(c) == c

\* write_data takes stdin by value: the handle is dropped, and the stream
\* closed, when write_data returns, with Ok or with the error of a write.
drop_stdin(c) == [c EXCEPT !.stdin = "closed"]

\* execute_plugin: one writeln! of write_data, which writes the line or fails
execute_plugin_write ==
    /\ pc = "write"
    /\ Len(child.received) < Len(Handshake(None, None, <<>>, <<>>))
    /\ LET lines == Handshake(Unwrap(idl), Unwrap(plugin_metadata),
                              Unwrap(dest).crate_name, Unwrap(dest).crate_path)
       IN  \/ /\ child' = [child EXCEPT
                              !.received = Append(@, lines[Len(child.received) + 1])]
              /\ UNCHANGED <<pc, ret, events>>
           \/ /\ child' = drop_stdin(child)
              /\ Return(<<"write">>,
                        Executing(WithContext(Err("the write failed", <<>>),
                                              "writing data to gluegun-", plugin)))
    /\ UNCHANGED <<input_vars, loop_vars, local_vars, result, extractions, merge_vars>>

\* execute_plugin: write_data returns Ok(())
execute_plugin_written ==
    /\ pc = "write"
    /\ Len(child.received) = Len(Handshake(None, None, <<>>, <<>>))
    /\ child' = drop_stdin(child)
    /\ Goto("write", "wait")
    /\ UNCHANGED <<input_vars, loop_vars, local_vars, result, extractions, merge_vars>>

\* A mutant of execute_plugin_wait: the process is not waited for, and is
\* taken to have succeeded.
execute_plugin_wait_detached ==
    /\ pc = "wait"
    /\ exit_status' = Some(0)
    /\ Goto("wait", "status")
    /\ UNCHANGED <<input_vars, loop_vars, idl, gluegun_metadata, plugin_metadata,
                   dest, built, command, child, result, extractions, merge_vars>>

\* A mutant of execute_plugin_wait: a process that is still running when
\* it is waited for is killed, and the status of that is returned.
execute_plugin_wait_timeout ==
    /\ pc = "wait"
    /\ \/ /\ child.state \in {"running", "exited"}
          /\ child' = [child EXCEPT !.state = "reaped"]
          /\ exit_status' = Some(IF child.state = "exited" THEN child.code
                                                          ELSE MaxExitCode)
          /\ Goto("wait", "status")
       \/ /\ Return(<<"wait">>,
                    Executing(WithContext(Err("the wait failed", <<>>),
                                          "waiting for gluegun-", plugin)))
          /\ UNCHANGED <<child, exit_status>>
    /\ UNCHANGED <<input_vars, loop_vars, idl, gluegun_metadata, plugin_metadata,
                   dest, built, command, result, extractions, merge_vars>>

\* execute_plugin: child.wait(), which returns once the process has exited
execute_plugin_wait ==
    /\ pc = "wait"
    /\ \/ /\ child.state = "exited"
          /\ child' = [child EXCEPT !.state = "reaped"]
          /\ exit_status' = Some(child.code)
          /\ Goto("wait", "status")
       \/ /\ Return(<<"wait">>,
                    Executing(WithContext(Err("the wait failed", <<>>),
                                          "waiting for gluegun-", plugin)))
          /\ UNCHANGED <<child, exit_status>>
    /\ UNCHANGED <<input_vars, loop_vars, idl, gluegun_metadata, plugin_metadata,
                   dest, built, command, result, extractions, merge_vars>>

\* A mutant of apply_plugin_status: the exit status is not looked at.
apply_plugin_status_ignored ==
    /\ pc = "status"
    /\ Return(<<>>, Ok(Unit))
    /\ UNCHANGED <<input_vars, loop_vars, local_vars, child, result, extractions,
                   merge_vars>>

\* apply_plugin: if exit_status.success() { Ok(()) } else { bail }
apply_plugin_status ==
    /\ pc = "status"
    /\ IF Success(Unwrap(exit_status))
       THEN Return(<<>>, Ok(Unit))
       ELSE Return(<<>>, Err("gluegun- failed with code", plugin))
    /\ UNCHANGED <<input_vars, loop_vars, local_vars, child, result, extractions,
                   merge_vars>>

\* The plugin process terminates, with some exit code.
child_exit ==
    /\ child.state = "running"
    /\ \E code \in ExitCodes : child' = [child EXCEPT !.state = "exited", !.code = code]
    /\ UNCHANGED <<input_vars, pc, loop_vars, local_vars, ret, result, events,
                   extractions, merge_vars>>

Next ==
    \/ plugin_command
    \/ execute_parse
    \/ execute_metadata
    \/ execute_check_selected
    \/ execute_check_plugins
    \/ execute_loop
    \/ apply_plugin_source
    \/ apply_plugin_extract
    \/ apply_plugin_merge_gluegun
    \/ apply_plugin_merge_plugin
    \/ apply_plugin_dest
    \/ execute_plugin_command
    \/ execute_plugin_configure
    \/ execute_plugin_spawn
    \/ execute_plugin_take_stdin
    \/ execute_plugin_write
    \/ execute_plugin_written
    \/ execute_plugin_wait
    \/ apply_plugin_status
    \/ child_exit

Spec == Init /\ [][Next]_vars

(***************************************************************************)
(* LiveSpec: the run under the scheduling of a sequential program.  The    *)
(* engine is one thread: the step its program counter stands at is taken   *)
(* in the end, with whichever outcome.  child.wait() is the one call that  *)
(* blocks on something else: it is bound to return the status only once    *)
(* the process has exited, and is never bound to fail.  Nothing binds a    *)
(* plugin process to exit.                                                 *)
(***************************************************************************)
EngineStep ==
    \/ execute_parse
    \/ execute_metadata
    \/ execute_check_selected
    \/ execute_check_plugins
    \/ execute_loop
    \/ apply_plugin_source
    \/ apply_plugin_extract
    \/ apply_plugin_merge_gluegun
    \/ apply_plugin_merge_plugin
    \/ apply_plugin_dest
    \/ execute_plugin_command
    \/ execute_plugin_configure
    \/ execute_plugin_spawn
    \/ execute_plugin_take_stdin
    \/ execute_plugin_write
    \/ execute_plugin_written
    \/ apply_plugin_status

\* child.wait() returns Ok(status)
WaitReturnsStatus == execute_plugin_wait /\ IsSome(exit_status')

Fairness == WF_vars(EngineStep) /\ WF_vars(WaitReturnsStatus)

LiveInit == BuilderNew /\ universe = "scheduling" /\ MergeIdle
LiveSpec == LiveInit /\ [][Next]_vars /\ Fairness

(***************************************************************************)
(* DestSpec and CommandSpec: the same engine, run for one package and one  *)
(* plugin over the inputs of dest_crate_name_and_path and of               *)
(* customized_plugin_command.                                              *)
(***************************************************************************)
OnePlugin == builder.args \in {<<name>> : name \in PluginNames}

DestInit == BuilderNew /\ OnePlugin /\ universe = "destinations" /\ MergeIdle
DestSpec == DestInit /\ [][Next]_vars

CommandInit == BuilderNew /\ OnePlugin /\ universe = "templates" /\ MergeIdle
CommandSpec == CommandInit /\ [][Next]_vars

(***************************************************************************)
(* MergeSpec: merge_metadata applied to every pair of optional trees.      *)
(***************************************************************************)
MergeInit ==
    /\ BuilderNew
    /\ universe = "workspace"
    /\ builder.args = <<>>
    /\ m_workspace \in OptionalTrees
    /\ m_package \in OptionalTrees
    /\ m_merged = Pending
    /\ m_swapped = Pending

\* merge_metadata(workspace, package), as apply_plugin calls it.
Merge ==
    /\ m_merged = Pending
    /\ m_merged' = merge_metadata(m_workspace, m_package)
    /\ UNCHANGED <<m_workspace, m_package, m_swapped, run_vars>>

\* The same call with the scopes exchanged.
MergeSwapped ==
    /\ m_swapped = Pending
    /\ m_swapped' = merge_metadata(m_package, m_workspace)
    /\ UNCHANGED <<m_workspace, m_package, m_merged, run_vars>>

MergeNext == Merge \/ MergeSwapped

MergeSpec == MergeInit /\ [][MergeNext]_vars

(***************************************************************************)
(* The history of a run, read from events.                                 *)
(***************************************************************************)
\* events[k] belongs to the cycle of package i and plugin j and is op.
Is(k, op, i, j) ==
    events[k].op = op /\ events[k].package = i /\ events[k].plugin = j

\* How many times op was performed in the cycle of package i and plugin j.
Performed(op, i, j) == Cardinality({k \in 1..Len(events) : Is(k, op, i, j)})

\* The steps of a cycle, in the order of the code.
StepOrder ==
    <<"apply_plugin", "extract", "merge_gluegun", "merge_plugin", "dest",
      "plugin_command", "configure", "spawn", "take_stdin", "write", "wait">>

IsReturn(e) == e.op \in {"return_ok", "return_err"}

\* The events of the cycle the run is in: a cycle has at most one event for
\* each step and one for its return, and they are the last of the run.
CycleEvents ==
    LET from == IF Len(events) > Len(StepOrder) + 1
                THEN Len(events) - Len(StepOrder) ELSE 1
        InCycle(e) == e.package = package_i /\ e.plugin = plugin_j
    IN  SelectSeq(SubSeq(events, from, Len(events)), InCycle)

\* How many times op was performed in the cycle the run is in.
PerformedInCycle(op) ==
    LET cycle == CycleEvents
    IN  Cardinality({k \in 1..Len(cycle) : cycle[k].op = op})

\* How many times op was performed in the run.
PerformedInRun(op) == Cardinality({k \in 1..Len(events) : events[k].op = op})

\* The cycles started, in the order of their start.
IsStart(e) == e.op = "apply_plugin"
Started == SelectSeq(events, IsStart)

\* A call has failed: its result is an error (and not merely not there yet).
Failed(r) == ~r.ok /\ r.err # <<>>

\* apply_plugin has just returned to execute.
Returned == pc = "loop" /\ events # <<>>

IsLocal(p) == p.source = <<>>

\* The order of cycles: the r-th cycle started is the r-th pair (package,
\* plugin) of the package-major enumeration.
PackageMajorOrder ==
    \A r \in 1..Len(Started) :
        /\ Started[r].package = ((r - 1) \div Len(cli_plugins)) + 1
        /\ Started[r].plugin = ((r - 1) % Len(cli_plugins)) + 1

\* A run that succeeds has performed n*m extractions and n*m spawns.
SuccessfulRunCounts ==
    (pc = "done" /\ result.ok) =>
        /\ extractions = Len(selected) * Len(cli_plugins)
        /\ PerformedInRun("extract") = Len(selected) * Len(cli_plugins)
        /\ PerformedInRun("take_stdin") = Len(selected) * Len(cli_plugins)
        /\ PerformedInRun("spawn") = Len(selected) * Len(cli_plugins)

\* C1 as stated: cycles run in package-major nested order (the cycle of
\* (p_i, q_j) starts before that of (p_k, q_l) exactly when i < k, or i = k
\* and j < l); every cycle performs exactly one extractor invocation and at
\* most one spawn; a successful run performs n*m extractions and n*m spawns.
C1_AsStated ==
    /\ PackageMajorOrder
    /\ Returned =>
        /\ Performed("extract", package_i, plugin_j) = 1
        /\ Performed("spawn", package_i, plugin_j) <= 1
    /\ SuccessfulRunCounts

\* C1, amended: cycles run in package-major nested order; every cycle
\* performs at most one extractor invocation -- exactly one when its package
\* is local, none when the package has an external source -- and at most one
\* spawn; a successful run performs n*m extractions and n*m spawns.
C1_CycleOrderAndCounts ==
    /\ PackageMajorOrder
    /\ Returned =>
        /\ Performed("extract", package_i, plugin_j)
             = (IF IsLocal(package) THEN 1 ELSE 0)
        /\ Performed("spawn", package_i, plugin_j) <= 1
    /\ SuccessfulRunCounts

\* C1's case: a run of two packages and two plugins has succeeded.
C1_Witness ==
    /\ pc = "done"
    /\ result.ok
    /\ Len(selected) = 2
    /\ Len(cli_plugins) = 2
    /\ Len(Started) = 4

\* C2: the run aborts on the first failing cycle.  Once a cycle has failed,
\* no operation of any cycle is performed any more (no extraction, no spawn)
\* and execute returns that cycle's error; at most one cycle ever fails, and
\* every cycle before it has spawned its plugin and returned Ok, which stays
\* on record.
C2_AbortOnFirstFailure ==
    /\ [](PerformedInRun("return_err") <= 1)
    /\ []((pc = "done" /\ PerformedInRun("return_err") = 1) =>
            /\ result = ret
            /\ Failed(result)
            /\ events[Len(events)].op = "return_err"
            /\ Len(Started) = PerformedInRun("return_ok") + 1
            /\ PerformedInRun("spawn") >= PerformedInRun("return_ok"))
    /\ [][Failed(ret) =>
            /\ events' = events
            /\ extractions' = extractions
            /\ ret' = ret
            /\ pc' \in {"loop", "done"}
            /\ (pc' = "done" => result' = ret)
            /\ (child'.state = "running" => child.state = "running")]_vars

\* C2's case: a cycle failed after another had succeeded, with cycles left.
C2_Witness ==
    /\ pc = "done"
    /\ Failed(result)
    /\ PerformedInRun("return_ok") >= 1
    /\ PerformedInRun("return_err") = 1
    /\ Len(Started) < Len(selected) * Len(cli_plugins)

\* C3: with an empty selection or an empty plugin list, execute never enters
\* its loops: it fails, with no extractor invocation and no process spawned.
C3_EmptyInputsFailEarly ==
    (pc \notin {"new", "metadata"} /\ (selected = <<>> \/ cli_plugins = <<>>)) =>
        /\ pc \in {"check_selected", "check_plugins", "done"}
        /\ pc = "done" => Failed(result)
        /\ events = <<>>
        /\ extractions = 0
        /\ child.state = "none"

\* C3's case: packages are selected, no plugin is named, and execute failed.
C3_Witness ==
    /\ pc = "done"
    /\ selected # <<>>
    /\ cli_plugins = <<>>
    /\ Failed(result)
    /\ result.err[1].msg = "no plugins specified"

\* C4: execute returns Ok exactly when the selection and the plugin list are
\* not empty and all n*m cycles ran and returned Ok; a cycle returns Ok only
\* when its plugin was waited for and exited with success, and a plugin that
\* exits with another status makes its cycle, and the run, fail.
C4_RunFailsOrSucceeds ==
    /\ pc = "done" =>
        /\ result.ok \/ Failed(result)
        /\ result.ok <=>
            /\ selected # <<>>
            /\ cli_plugins # <<>>
            /\ PerformedInRun("return_err") = 0
            /\ PerformedInRun("return_ok") = Len(selected) * Len(cli_plugins)
    /\ (Returned /\ ret.ok) =>
        /\ exit_status = <<0>>
        /\ child.state = "reaped"
        /\ child.code = 0
    /\ (pc \in {"loop", "done"} /\ exit_status # <<>> /\ exit_status # <<0>>) =>
        /\ Failed(ret)
        /\ pc = "done" => Failed(result)

\* C4's case: the plugin exited with a status other than success and the
\* run has failed for it.
C4_Witness ==
    /\ pc = "done"
    /\ exit_status = <<1>>
    /\ Failed(result)
    /\ result.err[1].msg = "gluegun- failed with code"

\* C5: in a cycle of a package with an external source nothing is performed
\* but the check that rejects it: no extraction, no merge, no destination
\* resolution, no spawn; the cycle returns the error.
C5_NonLocalRejectedFirst ==
    /\ \A k \in 1..Len(events) :
            ~IsLocal(selected[events[k].package]) =>
                events[k].op \in {"apply_plugin", "return_err"}
    /\ extractions = PerformedInRun("extract")
    /\ (pc \notin {"new", "metadata", "check_selected", "check_plugins", "done", "loop",
                   "apply_plugin"}) => IsLocal(package)
    /\ (Returned /\ ~IsLocal(package)) =>
        /\ Failed(ret)
        /\ ret.err[1].msg = "can only process local packages"
        /\ idl = <<>> /\ gluegun_metadata = <<>> /\ plugin_metadata = <<>>
        /\ dest = <<>> /\ child.state = "none"

\* C5's case: the cycle of a package with an external source has returned,
\* after a cycle of a local package.
C5_Witness ==
    /\ Returned
    /\ package_i = 2
    /\ ~IsLocal(package)
    /\ Failed(ret)

\* C6: the parent holds the child's open input stream only while write_data
\* runs; when it waits, all eight lines are written and the stream is
\* closed, and after a failed write the stream is closed as well.
C6_StdinClosedBeforeWait ==
    /\ child.stdin = "taken" => pc = "write"
    /\ pc \in {"wait", "status"} =>
        /\ child.stdin = "closed"
        /\ Len(child.received) = 8
    /\ (Returned /\ Failed(ret) /\ ret.err[1].msg = "the write failed") =>
        child.stdin = "closed"

\* C6's case: the parent waits for a child that is still running.
C6_Witness ==
    /\ pc = "wait"
    /\ child.state = "running"
    /\ child.stdin = "closed"

\* The errors of the built-in strategy's reading of plugin-command.
TemplateErrors ==
    {"expected a string for workspace configuration gluegun.plugin_command",
     "gluegun.plugin_command cannot contain apostrophe characters (FIXME)",
     "expected at least one word in gluegun.plugin_command"}

\* C7: the command spawned is the command the builder returned with exactly
\* one more argument after the builder's, the literal gg-<plugin>, and with
\* the engine's current directory, under every strategy; a caller's builder
\* replaces the built-in one, whose reading of plugin-command then never
\* happens.
C7_TrailingArgument ==
    /\ command # <<>> =>
        LET b == built[1]
            c == command[1]
        IN  /\ c.program = b.program
            /\ Len(c.args) = Len(b.args) + 1
            /\ SubSeq(c.args, 1, Len(b.args)) = b.args
            /\ c.args[Len(c.args)] = <<"g", "g", "-">> \o cli_plugins[plugin_j]
            /\ c.current_dir = <<builder.current_directory>>
    /\ child.state # "none" => command # <<>> /\ child.command = command
    /\ (builder.plugin_command = "caller" /\ built # <<>>) =>
        built[1].program = <<"r", "u", "n", "n", "e", "r">>
    /\ (builder.plugin_command = "caller" /\ Failed(ret)) =>
        ret.err[1].msg \notin TemplateErrors
    /\ (builder.plugin_command = "default" /\ built # <<>>
            /\ Get(gluegun_metadata[1], PluginCommandKey) = <<>>) =>
        built[1].program = <<"g", "l", "u", "e", "g", "u", "n", "-">> \o cli_plugins[plugin_j]

\* C7's case: a process was spawned by a caller's builder while the
\* configuration holds a plugin-command the built-in strategy rejects.
C7_Witness ==
    /\ child.state = "running"
    /\ builder.plugin_command = "caller"
    /\ Get(gluegun_metadata[1], PluginCommandKey) = <<Number(0)>>

(***************************************************************************)
(* The merger, under MergeSpec.                                            *)
(***************************************************************************)
Called(r) == r # Pending

BothObjects ==
    /\ m_workspace # <<>> /\ m_workspace[1].kind = "object"
    /\ m_package # <<>> /\ m_package[1].kind = "object"

\* C8: for two present object trees A (workspace) and B (package) the merge
\* succeeds with an object whose keys are those of A and of B, which holds
\* B[k] itself under every key k of B and A[k] itself under every key k of A
\* alone; merge(A, B) and merge(B, A) have the same keys.
C8_ObjectMerge ==
    BothObjects =>
        LET A == m_workspace[1].o
            B == m_package[1].o
        IN  /\ Called(m_merged) =>
                /\ m_merged.ok
                /\ m_merged.val[1].kind = "object"
                /\ DOMAIN m_merged.val[1].o = DOMAIN A \cup DOMAIN B
                /\ \A k \in DOMAIN B : m_merged.val[1].o[k] = B[k]
                /\ \A k \in DOMAIN A \ DOMAIN B : m_merged.val[1].o[k] = A[k]
            /\ (Called(m_merged) /\ Called(m_swapped)) =>
                /\ m_swapped.ok
                /\ DOMAIN m_merged.val[1].o = DOMAIN m_swapped.val[1].o

\* C8's case: both trees hold an object under the same key, the two objects
\* differ, and both merges have been made.
C8_Witness ==
    /\ BothObjects
    /\ Called(m_merged)
    /\ Called(m_swapped)
    /\ <<"a">> \in DOMAIN m_workspace[1].o
    /\ <<"a">> \in DOMAIN m_package[1].o
    /\ <<"b">> \in DOMAIN m_workspace[1].o
    /\ <<"b">> \notin DOMAIN m_package[1].o
    /\ m_workspace[1].o[<<"a">>].kind = "object"
    /\ m_package[1].o[<<"a">>].kind = "object"
    /\ m_workspace[1].o[<<"a">>] # m_package[1].o[<<"a">>]
    /\ m_merged.val[1].o[<<"a">>] = m_package[1].o[<<"a">>]

\* C9: the merge of any two optional trees is a tree or the conflict error,
\* and it is the conflict error exactly when both trees are present and of
\* different kinds.
C9_MergeTotal ==
    Called(m_merged) =>
        /\ \/ m_merged.ok /\ Len(m_merged.val) = 1 /\ m_merged.val[1].kind \in Kinds
           \/ /\ ~m_merged.ok
              /\ Len(m_merged.err) = 1
              /\ m_merged.err[1].msg = "cannot merge workspace/package configuration"
        /\ ~m_merged.ok <=>
            /\ m_workspace # <<>>
            /\ m_package # <<>>
            /\ m_workspace[1].kind # m_package[1].kind

\* C9's case: a present null against a present number is a conflict.
C9_Witness ==
    /\ m_workspace = <<Null>>
    /\ m_package = <<Number(0)>>
    /\ Called(m_merged)
    /\ ~m_merged.ok

\* C10: for two present trees of the same kind among number, boolean, string
\* and array, the merge is the package tree, whole.
C10_SameKindPackageWins ==
    (/\ Called(m_merged)
     /\ m_workspace # <<>>
     /\ m_package # <<>>
     /\ m_workspace[1].kind = m_package[1].kind
     /\ m_package[1].kind \in {"number", "bool", "string", "array"}) =>
        /\ m_merged.ok
        /\ m_merged.val = m_package

\* C10's case: two different arrays have been merged.
C10_Witness ==
    /\ m_workspace = <<Array(<<Number(0)>>)>>
    /\ m_package = <<Array(<<Number(MaxNum)>>)>>
    /\ Called(m_merged)
    /\ m_merged.val = <<Array(<<Number(MaxNum)>>)>>

(***************************************************************************)
(* Destination resolution, under DestSpec.                                 *)
(***************************************************************************)
\* The value of destination-path in the effective configuration of the
\* cycle, if the key is there.
DestinationPathValue == Get(Unwrap(gluegun_metadata), DestinationPathKey)

\* The first n components of the manifest path of the cycle's package.
ManifestPrefix(n) == SubSeq(package.manifest_path, 1, n)

FooJava == <<"f", "o", "o", "-", "j", "a", "v", "a">>
WsFooManifest == <<<<"w", "s">>, <<"f", "o", "o">>, CargoToml>>

Resolved == pc \notin {"new", "metadata", "check_selected", "check_plugins", "done"}
            /\ IsSome(dest)

\* C11: a destination that has been resolved is named <package>-<plugin> and
\* lies under the directory of the manifest when the placement is Child (no
\* destination-path, or "child") and under the parent of that directory when
\* it is Sibling; it is a function of the package name, the manifest path,
\* the plugin name and the value of destination-path alone.  For
\* /ws/foo/Cargo.toml and java these are /ws/foo/foo-java and /ws/foo-java.
C11_DestinationNameAndPath ==
    Resolved =>
        LET name == package.name \o <<"-">> \o plugin
            depth == Len(package.manifest_path)
            sibling == IsSome(DestinationPathValue)
                       /\ Unwrap(DestinationPathValue) = String(SiblingName)
        IN  /\ Unwrap(dest).crate_name = name
            /\ ~sibling => /\ depth >= 1
                            /\ Unwrap(dest).crate_path
                                   = Append(ManifestPrefix(depth - 1), name)
            /\ sibling => /\ depth >= 2
                           /\ Unwrap(dest).crate_path
                                  = Append(ManifestPrefix(depth - 2), name)
            /\ (package.manifest_path = WsFooManifest /\ plugin = Java) =>
                   /\ name = FooJava
                   /\ Unwrap(dest).crate_path
                          = IF sibling THEN <<<<"w", "s">>, FooJava>>
                                       ELSE <<<<"w", "s">>, <<"f", "o", "o">>, FooJava>>

C11_Witness ==
    /\ Resolved
    /\ package.manifest_path = WsFooManifest
    /\ plugin = Java
    /\ DestinationPathValue = Some(String(SiblingName))
    /\ Unwrap(dest).crate_path = <<<<"w", "s">>, FooJava>>

\* The parent directory the placement calls for cannot be determined: the
\* manifest path has no parent, or the placement is Sibling and the manifest
\* directory has no parent.
NoParent == package.manifest_path = <<>>
NoGrandparent ==
    /\ Len(package.manifest_path) = 1
    /\ IsSome(gluegun_metadata)
    /\ DestinationPathValue = Some(String(SiblingName))

\* The cycle has ended in the error of dest_crate_name_and_path that names
\* the manifest path.
FailedNamingManifest ==
    /\ Failed(ret)
    /\ ret.err[1] = Error("cannot compute parent path for crate at",
                          PathText(package.manifest_path))

\* C12 as stated: whenever the parent directory the placement calls for
\* cannot be determined (the manifest path has no parent, or no grandparent
\* under Sibling), the cycle fails with an error value that names the
\* manifest path, and no plugin process is spawned: the cycle does not end
\* in any other way once resolution is due.
C12_AsStated ==
    (plugin_j >= 1 /\ (NoParent \/ NoGrandparent)) =>
        /\ pc # "panicked"
        /\ child.state = "none"
        /\ PerformedInCycle("spawn") = 0
        /\ (Returned /\ PerformedInCycle("dest") = 1)
              => FailedNamingManifest

\* The last cycle of the run so far has ended.
Ended == pc \in {"loop", "done"} /\ events # <<>>

\* The cycle has performed its destination resolution.
ResolutionDone == plugin_j >= 1 /\ PerformedInCycle("dest") = 1

\* The destination lies n directories above the manifest.
PlacedAbove(n) ==
    /\ IsSome(dest)
    /\ Len(package.manifest_path) >= n
    /\ Unwrap(dest).crate_path
           = Append(ManifestPrefix(Len(package.manifest_path) - n),
                    package.name \o <<"-">> \o plugin)

BuiltInCalled ==
    /\ plugin_j >= 1
    /\ builder.plugin_command = "default"
    /\ PerformedInCycle("plugin_command") = 1

\* The value of plugin-command in the effective configuration of the cycle,
\* if the key is there.
PluginCommandValue == Get(Unwrap(gluegun_metadata), PluginCommandKey)

HasTemplate == IsSome(PluginCommandValue) /\ Unwrap(PluginCommandValue).kind = "string"

\* The words a template stands for, read off its pieces: a blank closes the
\* word being read, the placeholder adds the plugin name to it, any other
\* piece adds itself.
RECURSIVE WordsOfPieces(_, _, _, _)
WordsOfPieces(pieces, name, word, words) ==
    IF pieces = <<>>
    THEN IF word = <<>> THEN words ELSE Append(words, word)
    ELSE IF Head(pieces) = <<" ">>
    THEN WordsOfPieces(Tail(pieces), name, <<>>,
                       IF word = <<>> THEN words ELSE Append(words, word))
    ELSE IF Head(pieces) = PluginPlaceholder
    THEN WordsOfPieces(Tail(pieces), name, word \o name, words)
    ELSE WordsOfPieces(Tail(pieces), name, word \o Head(pieces), words)

\* The builder gave the command of these words: the first is the program,
\* the others its arguments, in order.
BuiltFrom(words) ==
    /\ IsSome(built)
    /\ Unwrap(built).program = Head(words)
    /\ Unwrap(built).args = Tail(words)

\* The builder failed with this message, and the cycle spawned no process.
RejectedWith(msg) ==
    /\ Ended
    /\ Failed(ret)
    /\ ret.err[1].msg = msg
    /\ built = None
    /\ child.state = "none"
    /\ PerformedInCycle("spawn") = 0

\* C14: under a string template the built-in command-builder replaces every
\* {plugin} by the plugin name and splits the result on whitespace; the
\* first word is the program and the other words are its arguments, in
\* order ("my-runner {plugin} --fast" for java is my-runner with java and
\* --fast).  A template with an apostrophe is rejected, and so is a template
\* without a word; neither spawns a process.  (Read where the builder has
\* just answered and where the cycle has ended; built does not change in
\* between.)
C14_TemplateCommand ==
    (BuiltInCalled /\ HasTemplate /\ (pc = "configure" \/ Ended)) =>
        LET template == Unwrap(PluginCommandValue).s
        IN  IF template = MyRunnerTemplate
            THEN BuiltFrom(<<SubSeq(MyRunnerTemplate, 1, 9), plugin,
                             <<"-", "-", "f", "a", "s", "t">>>>)
            ELSE LET pieces == CHOOSE ps \in PieceLists : Concat(ps) = template
                     words == WordsOfPieces(pieces, plugin, <<>>, <<>>)
                 IN  IF \E k \in 1..Len(pieces) : pieces[k] = <<Apostrophe>>
                     THEN RejectedWith("gluegun.plugin_command cannot contain apostrophe characters (FIXME)")
                     ELSE IF words = <<>>
                     THEN RejectedWith("expected at least one word in gluegun.plugin_command")
                     ELSE BuiltFrom(words)

\* C14's case: the template of the example, built for java.
C14_Witness ==
    /\ BuiltInCalled
    /\ HasTemplate
    /\ Unwrap(PluginCommandValue).s = MyRunnerTemplate
    /\ plugin = Java
    /\ BuiltFrom(<<<<"m", "y", "-", "r", "u", "n", "n", "e", "r">>, Java,
                   <<"-", "-", "f", "a", "s", "t">>>>)

\* C15 as stated: whenever the effective configuration holds no string
\* under plugin-command (the key is absent, the configuration is null, or
\* the value under the key is not a string), the built-in command-builder
\* gives the program gluegun-<plugin> with no arguments.
C15_AsStated ==
    (BuiltInCalled /\ ~HasTemplate) => BuiltFrom(<<GluegunPrefix \o plugin>>)

\* C15, amended: when the effective configuration has no plugin-command key
\* (the key is absent from the object, or the configuration is null) the
\* built-in command-builder gives the program gluegun-<plugin> with no
\* arguments; when a value is there and is not a string, the builder fails
\* and the cycle spawns no process.
C15_DefaultCommand ==
    (BuiltInCalled /\ ~HasTemplate) =>
        IF ~IsSome(PluginCommandValue)
        THEN BuiltFrom(<<GluegunPrefix \o plugin>>)
        ELSE RejectedWith("expected a string for workspace configuration gluegun.plugin_command")

\* C15's case: under the null configuration the command is gluegun-java.
C15_Witness ==
    /\ BuiltInCalled
    /\ gluegun_metadata = Some(Null)
    /\ plugin = Java
    /\ BuiltFrom(<<GluegunPrefix \o Java>>)
    /\ Unwrap(built).args = <<>>

(***************************************************************************)
(* The handshake, read as the plugin reads it.                             *)
(***************************************************************************)
\* How many objects are open where line k begins.
Depth(lines, k) ==
    Cardinality({i \in 1..(k - 1) : lines[i].brace = "open"})
        - Cardinality({i \in 1..(k - 1) : lines[i].brace = "close"})

\* The keys of the members d objects deep, in the order they are written.
KeysAt(lines, d) ==
    LET IsMember(k) == lines[k].key # "" /\ Depth(lines, k) = d
        members == SelectSeq([k \in 1..Len(lines) |-> k], IsMember)
    IN  [n \in 1..Len(members) |-> lines[members[n]].key]

\* The line of the member key, d objects deep.
Member(lines, key, d) ==
    lines[CHOOSE k \in 1..Len(lines) : lines[k].key = key /\ Depth(lines, k) = d]

\* The plugin has been sent the whole handshake of the cycle.
WholeHandshake == Len(child.received) = Len(Handshake(None, None, <<>>, <<>>))

\* C16: the handshake is one object whose keys are idl, metadata and
\* dest_crate, in that order; idl is the IDL the extractor produced in this
\* very cycle, metadata the configuration merged for this plugin (and not
\* the merged gluegun configuration), and dest_crate an object of the crate
\* name <package>-<plugin> and the resolved path, both as quoted strings.
C16_HandshakeContent ==
    WholeHandshake =>
        LET lines == child.received
        IN  /\ KeysAt(lines, 1) = <<"idl", "metadata", "dest_crate">>
            /\ KeysAt(lines, 2) = <<"crate_name", "path">>
            /\ Depth(lines, 1) = 0
            /\ Depth(lines, Len(lines) + 1) = 0
            /\ PerformedInCycle("extract") = 1
            /\ Member(lines, "idl", 1).idl
                   = Some([crate_name |-> package.name, serial |-> extractions])
            /\ Member(lines, "metadata", 1).json = plugin_metadata
            /\ IsSome(plugin_metadata)
            /\ Member(lines, "dest_crate", 1).brace = "open"
            /\ Member(lines, "crate_name", 2).text
                   = Some(<<DoubleQuote>> \o package.name \o <<"-">> \o plugin
                                         \o <<DoubleQuote>>)
            /\ Member(lines, "path", 2).text
                   = Some(<<DoubleQuote>> \o PathText(Unwrap(dest).crate_path)
                                         \o <<DoubleQuote>>)

\* C16's case: a whole handshake whose metadata differ from the gluegun
\* configuration of the cycle.
C16_Witness ==
    /\ WholeHandshake
    /\ plugin = Java
    /\ plugin_metadata # gluegun_metadata
    /\ Unwrap(plugin_metadata).kind = "object"
    /\ Member(child.received, "metadata", 1).json = plugin_metadata

(***************************************************************************)
(* The run from end to end.                                                *)
(***************************************************************************)
\* A finished run of one package and one plugin under the default
\* configuration (no gluegun metadata, the built-in command-builder), whose
\* plugin has exited and been waited for.
EndToEnd ==
    /\ pc = "done"
    /\ Len(selected) = 1
    /\ Len(cli_plugins) = 1
    /\ builder.plugin_command = "default"
    /\ workspace_metadata = Null
    /\ selected[1].metadata = Null
    /\ IsSome(exit_status)

\* C17 as stated: in a run of one package and one plugin under the default
\* configuration the exit code of the run equals the exit code of the
\* plugin process, whatever code the plugin returns.
C17_AsStated == EndToEnd => main(result) = Unwrap(exit_status)

\* C17, amended: in a run of one package and one plugin under the default
\* configuration the run exits with 0 exactly when the plugin exits with
\* 0; under any other code of the plugin the run fails with the error that
\* names the plugin and exits with 1.
C17_ExitCode ==
    EndToEnd =>
        /\ main(result) = (IF Unwrap(exit_status) = 0 THEN 0 ELSE 1)
        /\ result.ok <=> Unwrap(exit_status) = 0
        /\ ~result.ok => result.err = <<Error("gluegun- failed with code", cli_plugins[1])>>

\* C17's case: the plugin has exited with a code other than 0 and 1.
C17_Witness ==
    /\ EndToEnd
    /\ Unwrap(exit_status) = MaxExitCode
    /\ main(result) = 1

(***************************************************************************)
(* The order of the steps of a cycle.                                      *)
(***************************************************************************)
\* The steps at which an error of this message is raised.
StepsOf(msg) ==
    CASE msg = "can only process local packages" -> {"apply_plugin"}
      [] msg = "the crate does not parse" -> {"extract"}
      [] msg = "cannot merge workspace/package configuration"
            -> {"merge_gluegun", "merge_plugin"}
      [] msg \in {"unknown variant, expected child or sibling",
                  "cannot compute parent path for crate at"} -> {"dest"}
      [] msg \in {"expected a string for workspace configuration gluegun.plugin_command",
                  "gluegun.plugin_command cannot contain apostrophe characters (FIXME)",
                  "expected at least one word in gluegun.plugin_command",
                  "the caller's command-builder failed"} -> {"plugin_command"}
      [] msg = "the program cannot be run" -> {"spawn"}
      [] msg = "failed to take stdin" -> {"take_stdin"}
      [] msg = "the write failed" -> {"write"}
      [] msg \in {"the wait failed", "gluegun- failed with code"} -> {"wait"}
      [] OTHER -> {}

\* C18: the steps of a cycle are performed in the order local-package
\* check, extraction, gluegun-level merge, plugin-level merge, destination
\* resolution, command construction (and configuration), spawn (and taking
\* the stream), handshake write, wait.  A cycle that fails has performed the
\* failing step last; a cycle that succeeds has performed them all; a
\* process is spawned only when extraction, both merges and the resolution
\* have given their results, and a merge or a resolution fails only after
\* the extractor was invoked.
C18_StepOrder ==
    plugin_j >= 1 =>
        LET cycle == CycleEvents
            returned == cycle # <<>> /\ IsReturn(cycle[Len(cycle)])
            steps == IF returned THEN SubSeq(cycle, 1, Len(cycle) - 1) ELSE cycle
        IN  /\ Len(steps) <= Len(StepOrder)
            /\ \A k \in 1..Len(steps) : steps[k].op = StepOrder[k]
            /\ returned <=> Ended
            /\ (Ended /\ ret.ok) => Len(steps) = Len(StepOrder)
            /\ (Ended /\ ~ret.ok) =>
                   /\ steps # <<>>
                   /\ steps[Len(steps)].op \in StepsOf(ret.err[1].msg)
            /\ Len(steps) >= 8 =>
                   /\ IsSome(idl)
                   /\ IsSome(gluegun_metadata)
                   /\ IsSome(plugin_metadata)
                   /\ IsSome(dest)
            /\ child.state # "none" => Len(steps) >= 8

\* C18's case: a cycle has failed at its destination resolution, after the
\* extractor was invoked and both merges were done.
C18_Witness ==
    /\ plugin_j >= 1
    /\ Ended
    /\ Failed(ret)
    /\ Len(CycleEvents) = 6
    /\ CycleEvents[2].op = "extract"
    /\ CycleEvents[5].op = "dest"
    /\ child.state = "none"

(***************************************************************************)
(* The two merges of a cycle.                                              *)
(***************************************************************************)
\* The cycle has performed its plugin-level merge: it has the merged
\* configuration, or it has ended at that step or after it.
PluginMergeDone ==
    /\ plugin_j >= 1
    /\ IsSome(plugin_metadata) \/ (Ended /\ PerformedInCycle("merge_plugin") = 1)

\* The tree of the cycle's plugin in each of the two original scopes.
WorkspacePluginTree == AndThenGet(Get(workspace_metadata, GluegunKey), plugin)
PackagePluginTree == AndThenGet(Get(package.metadata, GluegunKey), plugin)

\* C19: the configuration of the plugin is merged from the plugin's trees
\* of the two original scopes, after the gluegun-level merge has succeeded.
\* With one tree missing it is the other; two trees of one kind give the
\* package's, and for objects the package's members together with the
\* workspace's members of other keys, so a key that only the workspace has
\* is kept (and sent to the plugin) although the package has a tree; two
\* trees of different kinds fail the cycle before any spawn.
C19_TwoPhaseMerge ==
    PluginMergeDone =>
        LET w == WorkspacePluginTree
            p == PackagePluginTree
        IN  /\ IsSome(gluegun_metadata)
            /\ IF IsSome(w) /\ IsSome(p) /\ Unwrap(w).kind # Unwrap(p).kind
               THEN /\ Ended
                    /\ Failed(ret)
                    /\ ret.err[1].msg = "cannot merge workspace/package configuration"
                    /\ plugin_metadata = None
                    /\ child.state = "none"
                    /\ PerformedInCycle("spawn") = 0
               ELSE /\ IsSome(plugin_metadata)
                    /\ LET merged == Unwrap(plugin_metadata)
                       IN  IF ~IsSome(w) THEN merged = (IF IsSome(p) THEN Unwrap(p) ELSE Null)
                           ELSE IF ~IsSome(p) THEN merged = Unwrap(w)
                           ELSE IF Unwrap(p).kind # "object" THEN merged = Unwrap(p)
                           ELSE /\ merged.kind = "object"
                                /\ DOMAIN merged.o = DOMAIN Unwrap(w).o \cup DOMAIN Unwrap(p).o
                                /\ \A k \in DOMAIN merged.o :
                                       merged.o[k] = IF k \in DOMAIN Unwrap(p).o
                                                     THEN Unwrap(p).o[k]
                                                     ELSE Unwrap(w).o[k]
                    /\ WholeHandshake =>
                           Member(child.received, "metadata", 1).json = plugin_metadata

\* C19's case: the package has a tree for the plugin, the workspace's tree
\* has a key of its own, and that key has been sent to the plugin; the
\* plugin's key of the merged gluegun tree does not have it.
C19_Witness ==
    /\ PluginMergeDone
    /\ WholeHandshake
    /\ IsSome(PackagePluginTree)
    /\ IsSome(WorkspacePluginTree)
    /\ <<"b">> \in DOMAIN Unwrap(WorkspacePluginTree).o
    /\ <<"b">> \notin DOMAIN Unwrap(PackagePluginTree).o
    /\ <<"b">> \in DOMAIN Unwrap(Member(child.received, "metadata", 1).json).o
    /\ <<"b">> \notin DOMAIN Unwrap(Get(Unwrap(gluegun_metadata), plugin)).o

(***************************************************************************)
(* Cycles do not overlap.                                                  *)
(***************************************************************************)
\* The process of the cycle has been spawned and its wait has not returned
\* its status.
Unwaited == child.state \in {"running", "exited"}

BeforeSpawn ==
    pc \in {"apply_plugin", "extract", "merge_gluegun", "merge_plugin", "dest",
            "plugin_command", "configure", "spawn"}

\* C20: cycles never overlap.  While a cycle is at a step before its spawn
\* no plugin process is there that has not been waited for, so at most one
\* is at any point; a cycle starts, and so the next extraction, only when
\* the previous cycle returned Ok and the wait on its process has returned.
\* A cycle ends with its process not waited for only by failing to take the
\* input stream or to write the handshake (or by the wait itself failing),
\* and then the run does nothing more than return that error.
C20_NoOverlap ==
    /\ [](BeforeSpawn => child.state = "none")
    /\ []((Ended /\ ret.ok) =>
            /\ child.state = "reaped"
            /\ PerformedInCycle("wait") = 1)
    /\ []((Ended /\ Unwaited) =>
            /\ Failed(ret)
            /\ ret.err[1].msg \in {"failed to take stdin", "the write failed",
                                    "the wait failed"}
            /\ PerformedInCycle("wait") = 0
                  => ret.err[1].msg \in {"failed to take stdin", "the write failed"})
    /\ [][pc' = "apply_plugin" =>
            /\ ret.ok
            /\ child.state \in {"none", "reaped"}
            /\ child.state = "none" => events = <<>>]_vars
    /\ [][(Ended /\ Unwaited) =>
            /\ events' = events
            /\ extractions' = extractions
            /\ pc' \in {"loop", "done"}
            /\ (pc' = "done" => result' = ret /\ Failed(result'))]_vars

\* C20's case: the second cycle of a run is at its extraction, and the wait
\* on the process of the first has returned.
C20_Witness ==
    /\ pc = "extract"
    /\ Len(Started) = 2
    /\ PerformedInRun("wait") = 1
    /\ PerformedInRun("return_ok") = 1
    /\ child.state = "none"

(***************************************************************************)
(* Termination, under LiveSpec.                                            *)
(***************************************************************************)
\* Every plugin process that runs terminates in the end: time and again
\* no plugin process is running.
EveryPluginTerminates == []<>(child.state # "running")

\* A plugin process runs for ever.
PluginNeverTerminates == <>[](child.state = "running")

\* execute returns, with Ok or with the error of the first cycle to fail
\* (or with its own error, when no cycle was started).
ReturnsFirstError ==
    pc = "done" =>
        /\ result.ok \/ Failed(result)
        /\ PerformedInRun("return_err") >= 1 => (result = ret /\ Failed(result))

\* C21 as stated: if every spawned plugin process terminates in the end,
\* execute returns in the end, with success or with the first error; and if
\* a plugin process never terminates, execute never returns and no later
\* cycle starts.
C21_AsStated ==
    /\ EveryPluginTerminates => <>(pc = "done")
    /\ []ReturnsFirstError
    /\ PluginNeverTerminates => [](pc # "done")
    /\ [][child.state = "running" => pc' # "apply_plugin"]_vars

\* C21, amended: if every spawned plugin process terminates in the end,
\* execute returns in the end, with success or with the first error.  There
\* is no timeout: wait returns a status only for a process that has exited,
\* so beside a process that never terminates the engine stays at the wait
\* for ever unless the wait itself fails, and no later cycle ever starts;
\* execute returns beside a process that still runs only with the error of
\* taking the stream, of the write or of the wait.
C21_Termination ==
    /\ EveryPluginTerminates => <>(pc = "done")
    /\ []ReturnsFirstError
    /\ [][IsSome(exit_status') /\ exit_status' # exit_status
            => child.state = "exited" /\ exit_status' = Some(child.code)]_vars
    /\ [][child.state = "running" => pc' # "apply_plugin"]_vars
    /\ []((pc = "done" /\ child.state = "running") =>
            /\ Failed(result)
            /\ result.err[1].msg \in {"failed to take stdin", "the write failed",
                                       "the wait failed"})

\* C21's case: the engine stands at the wait, the handshake written, and
\* the process of the second cycle still runs.
C21_Witness ==
    /\ pc = "wait"
    /\ child.state = "running"
    /\ child.stdin = "closed"
    /\ PerformedInRun("return_ok") = 1
====
